---------------------------- MODULE Spec2Model ----------------------------
(***************************************************************************)
(* Model of regle/generate_ukb_3066_demo_dataset.py: the spirometry curve  *)
(* derivation pipeline (trim_records, derive_base_curves,                  *)
(* derive_input_representations, build_npy_files, write_npy_files) and the *)
(* pure helpers it is built from.                                          *)
(*                                                                         *)
(* Numbers.  Raw samples are integers.  Every derived quantity (volume,    *)
(* flow, time, thresholds, means) is a binary floating-point value, and    *)
(* every operation of numpy on it is the exact operation followed by the   *)
(* rounding of the result to float32 or float64, whichever the operation   *)
(* is carried out in.  Array indices are 0-based in the definitions that   *)
(* return them (as in the source); TLA+ sequences are 1-based, so s[i + 1] *)
(* is the source's s[i].                                                   *)
(*                                                                         *)
(* Failures.  A function of the source that can raise returns a record     *)
(* [ok, err, val]: Ok(v) for a normal return of v, Fail(e) for an          *)
(* exception of class e.                                                   *)
(***************************************************************************)
EXTENDS Integers, Sequences, FiniteSets, TLC

VARIABLES
    records,      \* the caller's list of record dictionaries (mutable)
    batch,        \* the caller's list as it was when the current run began
    duplicates,   \* the value of the --duplicates flag
    run,          \* 1: first run of the pipeline, 2: the run repeated
    pc,           \* position of main: start, trimmed, base, repr, built,
                  \* written, failed (idle: no pipeline run is modelled)
    stage,        \* the stage that raised, "" when none did
    err,          \* the exception raised, "" when none was
    trimmed_df,   \* trim_records' data frame: one row per record
    base_df,      \* derive_base_curves' data frame
    repr_df,      \* derive_input_representations' data frame
    files,        \* << >>, or <<m>> with m build_npy_files' mapping
    written,      \* the npy files in out_dir: file name |-> what it holds
    first,        \* << >>, or <<o>> with o the outcome of the first run
    call          \* a single call of a pure function: arguments and return

vars == <<records, batch, duplicates, run, pc, stage, err, trimmed_df,
          base_df, repr_df, files, written, first, call>>

---------------------------------------------------------------------------
(* Bounds of the model.                                                    *)

\* Longest raw series of a record, and longest curve handed to a function.
MaxLen == 4
\* Largest sample of a curve handed to a function.
MaxVal == 2
\* Largest declared num_points of a record.
MaxPts == 3
\* Largest value of the --duplicates flag.
MaxDup == 2
\* Largest magnitude, in raw units, of a volume sample or volume_max handed
\* to compute_fef.
MaxFef == 4
\* Longest curve handed to compute_fef.
MaxFefLen == 3
\* Largest target length handed to right_pad_array.
MaxPad == 5
\* MAX_NUM_POINTS, the fixed length of every representation (1000 in the
\* source, and the literal 1000 of build_npy_files' shape assertions),
\* scaled down so that blows shorter than, as long as and longer than it
\* all occur within MaxPts.
MAX_NUM_POINTS == 3

---------------------------------------------------------------------------
(* Natural numbers of any size, as the sequence of their digits in base    *)
(* 2^15, least significant first, without leading zero digits: the         *)
(* significands of numpy's float32 and float64 values do not fit the       *)
(* integers of the model checker.                                          *)

Abs(x) == IF x < 0 THEN 0 - x ELSE x

Min(a, b) == IF a <= b THEN a ELSE b

Max(a, b) == IF a >= b THEN a ELSE b

BigBase == 32768

BigDigit(a, i) == IF i <= Len(a) THEN a[i] ELSE 0

RECURSIVE BigTrim(_)
BigTrim(a) ==
    IF a = << >> \/ a[Len(a)] # 0 THEN a ELSE BigTrim(SubSeq(a, 1, Len(a) - 1))

\* The digits of an integer 0 <= n < 2^31.
BigOfInt(n) ==
    BigTrim(<<n % BigBase, (n \div BigBase) % BigBase,
              n \div (BigBase * BigBase)>>)

RECURSIVE BigAddFrom(_, _, _, _)
BigAddFrom(a, b, i, carry) ==
    IF i > Len(a) /\ i > Len(b)
    THEN IF carry = 0 THEN << >> ELSE <<carry>>
    ELSE LET t == BigDigit(a, i) + BigDigit(b, i) + carry
         IN  <<t % BigBase>> \o BigAddFrom(a, b, i + 1, t \div BigBase)

BigAdd(a, b) == BigAddFrom(a, b, 1, 0)

RECURSIVE BigSubFrom(_, _, _, _)
BigSubFrom(a, b, i, borrow) ==
    IF i > Len(a)
    THEN << >>
    ELSE LET t == a[i] - BigDigit(b, i) - borrow
         IN  IF t < 0
             THEN <<t + BigBase>> \o BigSubFrom(a, b, i + 1, 1)
             ELSE <<t>> \o BigSubFrom(a, b, i + 1, 0)

\* a - b, for a >= b.
BigSub(a, b) == BigTrim(BigSubFrom(a, b, 1, 0))

RECURSIVE BigCmpFrom(_, _, _)
BigCmpFrom(a, b, i) ==
    IF i = 0 THEN 0
    ELSE IF a[i] < b[i] THEN 0 - 1
    ELSE IF a[i] > b[i] THEN 1
    ELSE BigCmpFrom(a, b, i - 1)

\* -1, 0 or 1 as a < b, a = b or a > b.
BigCmp(a, b) ==
    IF Len(a) < Len(b) THEN 0 - 1
    ELSE IF Len(a) > Len(b) THEN 1
    ELSE BigCmpFrom(a, b, Len(a))

RECURSIVE BigScaleFrom(_, _, _, _)
BigScaleFrom(a, k, i, carry) ==
    IF i > Len(a)
    THEN IF carry = 0 THEN << >> ELSE <<carry>>
    ELSE LET t == a[i] * k + carry
         IN  <<t % BigBase>> \o BigScaleFrom(a, k, i + 1, t \div BigBase)

\* a * k, for 0 <= k < 2^15.
BigScale(a, k) == IF k = 0 THEN << >> ELSE BigScaleFrom(a, k, 1, 0)

\* a * 2^(15 n)
BigShiftDigits(a, n) ==
    IF a = << >> THEN << >> ELSE [i \in 1 .. n |-> 0] \o a

RECURSIVE BigMulFrom(_, _, _)
BigMulFrom(a, b, j) ==
    IF j > Len(b)
    THEN << >>
    ELSE BigAdd(BigScale(a, b[j]),
                BigShiftDigits(BigMulFrom(a, b, j + 1), 1))

BigMul(a, b) == BigMulFrom(a, b, 1)

\* The number of bits of 0 <= n < 2^15.
DigitBits(n) == IF n = 0 THEN 0 ELSE CHOOSE k \in 1 .. 15 : 2^(k - 1) <= n /\ n < 2^k

\* The number of bits of a.
BigBits(a) ==
    IF a = << >> THEN 0 ELSE 15 * (Len(a) - 1) + DigitBits(a[Len(a)])

\* a * 2^n
BigShl(a, n) == BigShiftDigits(BigScale(a, 2^(n % 15)), n \div 15)

\* floor(a / 2^n)
BigShr(a, n) ==
    LET q == n \div 15
        r == n % 15
        x == SubSeq(a, q + 1, Len(a))
    IN  BigTrim([i \in 1 .. Len(x) |->
                    (x[i] \div 2^r) + (BigDigit(x, i + 1) % 2^r) * 2^(15 - r)])

\* Bit i of a, bit 0 the least significant.
BigBit(a, i) == (BigDigit(a, (i \div 15) + 1) \div 2^(i % 15)) % 2

\* The n lowest bits of a are all zero.
BigLowZero(a, n) ==
    /\ \A i \in 1 .. Min(n \div 15, Len(a)) : a[i] = 0
    /\ BigDigit(a, (n \div 15) + 1) % 2^(n % 15) = 0

\* Five more bits of a division by the integer d < 2^26: the quotient
\* qr[1] and the remainder qr[2] so far, after the next five bits of the
\* dividend.
DivStep(qr, bits, d) ==
    <<qr[1] * 32 + ((qr[2] * 32 + bits) \div d), (qr[2] * 32 + bits) % d>>

\* One digit of the division by the integer d < 2^26, five bits at a time:
\* <<quotient digit, remainder>> of (r * 2^15 + digit) by d, for r < d.
DivDigit(digit, r, d) ==
    DivStep(DivStep(DivStep(<<0, r>>, digit \div 1024, d),
                    (digit \div 32) % 32, d),
            digit % 32, d)

\* The digit s[1] put before the quotient digits q, the remainder s[2] kept.
DivPut(q, s) == <<<<s[1]>> \o q, s[2]>>

\* <<the digits of floor(a / d), a % d>> for an integer 0 < d < 2^26, from
\* digit i of a down, qr being the digits and the remainder found so far.
RECURSIVE BigDivIntFrom(_, _, _, _)
BigDivIntFrom(a, d, i, qr) ==
    IF i = 0
    THEN qr
    ELSE BigDivIntFrom(a, d, i - 1, DivPut(qr[1], DivDigit(a[i], qr[2], d)))

\* <<q * 32 + c, r - d * c>>
DivBigPut(d, q, r, c) ==
    <<BigAdd(BigScale(q, 32), BigOfInt(c)), BigSub(r, BigScale(d, c))>>

\* The quotient q extended by the digit floor(r / d) < 32.
DivBigDigit(d, q, r) ==
    DivBigPut(d, q, r,
              CHOOSE c \in 0 .. 31 :
                  /\ BigCmp(BigScale(d, c), r) <= 0
                  /\ BigCmp(BigScale(d, c + 1), r) > 0)

\* Five more bits of a division by d: the quotient qr[1] and the remainder
\* qr[2] so far, after the next five bits of the dividend.
DivBigStep(d, qr, bits) ==
    DivBigDigit(d, qr[1], BigAdd(BigScale(qr[2], 32), BigOfInt(bits)))

\* <<floor(a / 2^i / d), its remainder>>, five bits of the quotient at a
\* time, for a divisor of any size.
RECURSIVE BigDivBigFrom(_, _, _)
BigDivBigFrom(a, d, i) ==
    IF i > BigBits(a) - BigBits(d)
    THEN <<<< >>, BigShr(a, i)>>
    ELSE DivBigStep(d, BigDivBigFrom(a, d, i + 5),
                    BigDigit(BigShr(a, i), 1) % 32)

\* The result of BigDivIntFrom without leading zero digits, the remainder
\* in digits.
BigDivInt(qr) == <<BigTrim(qr[1]), BigOfInt(qr[2])>>

\* <<floor(a / d), a % d>>, for d > 0.
BigDiv(a, d) ==
    IF Len(d) = 1 \/ (Len(d) = 2 /\ d[2] < 2048)
    THEN BigDivInt(BigDivIntFrom(a, BigDigit(d, 1) + BigBase * BigDigit(d, 2),
                                 Len(a), <<<< >>, 0>>))
    ELSE BigDivBigFrom(a, d, 0)

---------------------------------------------------------------------------
(* numpy's floating point. A value is <<s, m, e>>, standing for            *)
(* s * m * 2^e: s is 1 or -1, m an odd natural number of any size, and     *)
(* zero is <<1, << >>, 0>>, so that equal numbers are equal values. An     *)
(* operation of numpy is the exact operation followed by the rounding to   *)
(* 24 bits (float32) or 53 bits (float64), to nearest, ties to even.       *)
(* Infinities, NaN, subnormal numbers and the sign of zero are left out:   *)
(* the curves of the pipeline stay far from the ends of the range.         *)

FZero == <<1, << >>, 0>>

\* The number of trailing zero bits of 0 < n < 2^15.
TrailingZeros(n) ==
    CHOOSE k \in 0 .. 14 : n % 2^k = 0 /\ (n \div 2^k) % 2 = 1

\* The value s * m * 2^e, for any natural m.
RECURSIVE FMake(_, _, _)
FMake(s, m, e) ==
    IF m = << >> THEN FZero
    ELSE IF m[1] = 0 THEN FMake(s, Tail(m), e + 15)
    ELSE <<s, BigShr(m, TrailingZeros(m[1])), e + TrailingZeros(m[1])>>

\* The integer n as a value, |n| < 2^31.
R(n) == FMake(IF n < 0 THEN 0 - 1 ELSE 1, BigOfInt(Abs(n)), 0)

FNeg(a) == IF a = FZero THEN a ELSE <<0 - a[1], a[2], a[3]>>

\* sa * ma * 2^e + sb * mb * 2^e
XAddAligned(sa, ma, sb, mb, e) ==
    IF sa = sb THEN FMake(sa, BigAdd(ma, mb), e)
    ELSE IF BigCmp(ma, mb) >= 0 THEN FMake(sa, BigSub(ma, mb), e)
    ELSE FMake(sb, BigSub(mb, ma), e)

\* a + b, exactly.
XAdd(a, b) ==
    IF a = FZero THEN b
    ELSE IF b = FZero THEN a
    ELSE XAddAligned(a[1], BigShl(a[2], a[3] - Min(a[3], b[3])),
                     b[1], BigShl(b[2], b[3] - Min(a[3], b[3])),
                     Min(a[3], b[3]))

\* a - b, exactly.
XSub(a, b) == XAdd(a, FNeg(b))

\* a * b, exactly.
XMul(a, b) ==
    IF a = FZero \/ b = FZero THEN FZero
    ELSE <<a[1] * b[1], BigMul(a[2], b[2]), a[3] + b[3]>>

\* Dropping the d > 0 lowest bits of m rounds up: they are more than half
\* of the last bit kept, or half of it and the last bit kept is odd.
RoundsUp(m, d) ==
    /\ BigBit(m, d - 1) = 1
    /\ (~BigLowZero(m, d - 1) \/ BigBit(m, d) = 1)

\* a without the d lowest bits of its significand, rounded to nearest, ties
\* to even.
FRoundBy(a, d) ==
    IF d <= 0 THEN a
    ELSE FMake(a[1],
               BigAdd(BigShr(a[2], d),
                      IF RoundsUp(a[2], d) THEN <<1>> ELSE << >>),
               a[3] + d)

\* a rounded to p bits, to nearest, ties to even.
FRound(p, a) == FRoundBy(a, BigBits(a[2]) - p)

\* The value s * (2 q + x) * 2^e rounded to p bits, for the quotient q and
\* the remainder r of qr, x being 1 when r is not zero.
FDivRound(p, s, qr, e) ==
    FRound(p, FMake(s, BigAdd(BigAdd(qr[1], qr[1]),
                              IF qr[2] = << >> THEN << >> ELSE <<1>>), e))

\* The quotient of the significand of a, shifted by k bits, by that of b.
FDivBy(p, a, b, k) ==
    FDivRound(p, a[1] * b[1], BigDiv(BigShl(a[2], k), b[2]),
              a[3] - b[3] - k - 1)

\* a / b rounded to p bits, for b # 0: the quotient of the significands to
\* p + 2 bits or more, and one more bit telling whether it is inexact.
FDiv(p, a, b) ==
    IF a = FZero THEN FZero
    ELSE FDivBy(p, a, b, Max(0, p + 2 + BigBits(b[2]) - BigBits(a[2])))

\* -1, 0 or 1 as |a| < |b|, |a| = |b| or |a| > |b|: by the position of the
\* leading bit, and by the aligned significands when that is the same.
MagCmp(a, b) ==
    IF a[2] = << >> THEN (IF b[2] = << >> THEN 0 ELSE 0 - 1)
    ELSE IF b[2] = << >> THEN 1
    ELSE IF BigBits(a[2]) + a[3] < BigBits(b[2]) + b[3] THEN 0 - 1
    ELSE IF BigBits(a[2]) + a[3] > BigBits(b[2]) + b[3] THEN 1
    ELSE BigCmp(BigShl(a[2], a[3] - Min(a[3], b[3])),
                BigShl(b[2], b[3] - Min(a[3], b[3])))

\* -1, 0 or 1 as a < b, a = b or a > b.
FCmp(a, b) ==
    IF a = b THEN 0
    ELSE IF a[1] # b[1] THEN (IF a[1] < b[1] THEN 0 - 1 ELSE 1)
    ELSE a[1] * MagCmp(a, b)

\* a <= b, a < b, a >= b
RLeq(a, b) == FCmp(a, b) <= 0

RLt(a, b) == FCmp(a, b) < 0

RGeq(a, b) == RLeq(b, a)

\* The conversions to float32 and to float64.
F32(a) == FRound(24, a)

F64(a) == FRound(53, a)

RMax(a, b) == IF RGeq(a, b) THEN a ELSE b

\* np.max of a non-empty array.
RECURSIVE np_max(_)
np_max(a) ==
    IF Len(a) = 1 THEN a[1] ELSE RMax(a[1], np_max(Tail(a)))

\* res + a[i] + a[i + step] + ..., up to index hi, one float64 addition
\* after another.
RECURSIVE SumFrom(_, _, _, _, _)
SumFrom(a, res, i, step, hi) ==
    IF i > hi THEN res
    ELSE SumFrom(a, F64(XAdd(res, a[i])), i + step, step, hi)

\* The sum of r[lo], ..., r[lo + n - 1], n a power of two: the sum of the
\* first half plus the sum of the second half.
RECURSIVE sum_in_pairs(_, _, _)
sum_in_pairs(r, lo, n) ==
    IF n = 1 THEN r[lo]
    ELSE F64(XAdd(sum_in_pairs(r, lo, n \div 2),
                  sum_in_pairs(r, lo + (n \div 2), n \div 2)))

\* numpy's pairwise summation of the n float64 values a[lo], a[lo + 1], ...:
\* fewer than 8 are added up from the left; up to 128 are added into eight
\* interleaved partial sums, which are added in pairs, and the last n % 8
\* are added to the result; more are split in two halves.
RECURSIVE pairwise_sum(_, _, _)
pairwise_sum(a, lo, n) ==
    IF n < 8
    THEN SumFrom(a, R(0), lo, 1, lo + n - 1)
    ELSE IF n <= 128
    THEN SumFrom(a,
                 sum_in_pairs([j \in 1 .. 8 |->
                                  SumFrom(a, a[lo + j - 1], lo + j + 7, 8,
                                          lo + n - (n % 8) - 1)],
                              1, 8),
                 lo + n - (n % 8), 1, lo + n - 1)
    ELSE F64(XAdd(pairwise_sum(a, lo, (n \div 2) - ((n \div 2) % 8)),
                  pairwise_sum(a, lo + (n \div 2) - ((n \div 2) % 8),
                               n - ((n \div 2) - ((n \div 2) % 8)))))

\* The float64 sum of an array, as np.add.reduce computes it.
np_sum(a) == pairwise_sum(a, 1, Len(a))

---------------------------------------------------------------------------
(* Python sequence slicing.                                                *)

\* A slice bound i of a sequence of length n: negative bounds count from
\* the end, and every bound is clamped into 0..n.
PyBound(n, i) == IF i < 0 THEN Max(n + i, 0) ELSE Min(i, n)

\* s[:hi]
SliceTo(s, hi) == SubSeq(s, 1, PyBound(Len(s), hi))

\* s[lo:]
SliceFrom(s, lo) == SubSeq(s, PyBound(Len(s), lo) + 1, Len(s))

\* s[lo:hi]
Slice(s, lo, hi) == SubSeq(s, PyBound(Len(s), lo) + 1, PyBound(Len(s), hi))

\* The array of the values f[1], ..., f[n] of a function f on 1 .. n.
Array(f) == SubSeq(f, 1, Len(f))

Ok(v) == [ok |-> TRUE, err |-> "", val |-> v]

Fail(e) == [ok |-> FALSE, err |-> e, val |-> << >>]

---------------------------------------------------------------------------
(* Program constants.                                                      *)

\* A Python float literal is the float64 nearest to the decimal written.
\* TIME_SCALE = 0.01
TIME_SCALE == FDiv(53, R(1), R(100))

\* VOLUME_SCALE = 0.001
VOLUME_SCALE == FDiv(53, R(1), R(1000))

\* MAX_INTERP_VOLUME = 6.58
MAX_INTERP_VOLUME == FDiv(53, R(329), R(50))

\* The fractions 0.25, 0.50 and 0.75 of compute_fef's thresholds.
Quarter == FDiv(53, R(1), R(4))

Half == FDiv(53, R(1), R(2))

ThreeQuarters == FDiv(53, R(3), R(4))

---------------------------------------------------------------------------
(* trim_records                                                            *)

\* set(a) for a sequence a.
PySet(a) == {a[i] : i \in DOMAIN a}

\* trim_record keeping two leading zeros: the slice taken one entry too
\* early.
trim_record_two_zeros(record) ==
    LET series == record.series
        num_points == record.num_points
        num_zeros == Len(series) - num_points
        trimmed_series == SliceFrom(series, 0 - (num_points + 2))
    IN  IF PySet(SliceTo(series, num_zeros)) # {0}
        THEN Fail("AssertionError")
        ELSE IF Len(trimmed_series) = 0
        THEN Fail("IndexError")
        ELSE IF trimmed_series[1] # 0
        THEN Fail("AssertionError")
        ELSE Ok([record EXCEPT !.series = trimmed_series])

\* trim_record keeping no leading zero: the slice series[-num_points:].
trim_record_no_zero(record) ==
    LET series == record.series
        num_points == record.num_points
        num_zeros == Len(series) - num_points
        trimmed_series == SliceFrom(series, 0 - num_points)
    IN  IF PySet(SliceTo(series, num_zeros)) # {0}
        THEN Fail("AssertionError")
        ELSE IF Len(trimmed_series) = 0
        THEN Fail("IndexError")
        ELSE IF trimmed_series[1] # 0
        THEN Fail("AssertionError")
        ELSE Ok([record EXCEPT !.series = trimmed_series])

\* The body of trim_records' loop for one record: the zero-prefix
\* assertion, the slice, the first-zero assertion; the value is the record
\* with its series replaced by the trimmed series.
trim_record(record) ==
    LET series == record.series
        num_points == record.num_points
        num_zeros == Len(series) - num_points
        trimmed_series == SliceFrom(series, 0 - (num_points + 1))
    IN  IF PySet(SliceTo(series, num_zeros)) # {0}
        THEN Fail("AssertionError")
        ELSE IF Len(trimmed_series) = 0
        THEN Fail("IndexError")
        ELSE IF trimmed_series[1] # 0
        THEN Fail("AssertionError")
        ELSE Ok([record EXCEPT !.series = trimmed_series])

\* trim_loop skipping a record whose assertion fails and going on with the
\* next one.
RECURSIVE trim_loop_skip(_, _)
trim_loop_skip(recs, i) ==
    IF i > Len(recs)
    THEN [ok |-> TRUE, err |-> "", records |-> recs]
    ELSE LET r == trim_record(recs[i])
         IN  IF r.ok
             THEN trim_loop_skip([recs EXCEPT ![i] = r.val], i + 1)
             ELSE trim_loop_skip(recs, i + 1)

\* The loop of trim_records from record i on: each record dictionary is
\* updated in place, and an assertion that fails leaves the records before
\* it updated and the others as they were.
RECURSIVE trim_loop(_, _)
trim_loop(recs, i) ==
    IF i > Len(recs)
    THEN [ok |-> TRUE, err |-> "", records |-> recs]
    ELSE LET r == trim_record(recs[i])
         IN  IF r.ok
             THEN trim_loop([recs EXCEPT ![i] = r.val], i + 1)
             ELSE [ok |-> FALSE, err |-> r.err, records |-> recs]

\* trim_records(records): .records is the caller's list after the call,
\* and on a normal return pd.DataFrame(records) holds one row per record of
\* that list.
trim_records(recs) == trim_loop(recs, 1)

---------------------------------------------------------------------------
(* derive_base_curves                                                      *)

\* compute_volume: (series * volume_scale).astype(np.float32). The product
\* of the integer samples and the Python float is a float64 array, which is
\* then rounded to float32.
compute_volume(series, volume_scale) ==
    Array([i \in DOMAIN series |->
              F32(F64(XMul(R(series[i]), volume_scale)))])

\* np.diff(a) of a float32 array: a[i + 1] - a[i] in float32; empty for
\* fewer than two samples.
np_diff(a) ==
    Array([i \in 1 .. (Len(a) - 1) |-> F32(XSub(a[i + 1], a[i]))])

\* compute_flow without the division by time_scale.
compute_flow_unscaled(volume, time_scale) ==
    <<R(0)>> \o np_diff(volume)

\* a / divisor of a float32 array and a float32 divisor.
divide_float32(a, divisor) ==
    Array([i \in DOMAIN a |-> FDiv(24, a[i], divisor)])

\* compute_flow: np.concatenate(([0.0], np.diff(volume) / time_scale)), for
\* the float32 volume curve compute_volume returns. A float32 array divided
\* by a Python float is divided in float32, the divisor rounded to float32
\* first; the concatenation with [0.0] is a float64 array of the same
\* values.
compute_flow(volume, time_scale) ==
    <<R(0)>> \o divide_float32(np_diff(volume), F32(time_scale))

\* The columns of one row after derive_base_curves, given its volume and
\* flow curves: 'series' dropped, the curves with their maximum and their
\* last sample added.
base_columns(row, volume, flow) ==
    [num_points |-> row.num_points,
     volume |-> volume,
     volume_max |-> np_max(volume),
     volume_last |-> volume[Len(volume)],
     flow |-> flow,
     flow_max |-> np_max(flow),
     flow_last |-> flow[Len(flow)]]

\* base_row with volume_max taken from the raw series instead of the
\* rescaled volume curve.
base_row_raw_max(row, volume_scale, time_scale) ==
    [base_columns(row, compute_volume(row.series, volume_scale),
                  compute_flow(compute_volume(row.series, volume_scale),
                               time_scale))
     EXCEPT !.volume_max =
                np_max([i \in DOMAIN row.series |-> R(row.series[i])])]

\* One row of derive_base_curves: the volume curve of the series, and the
\* flow curve derived from that volume curve.
base_row(row, volume_scale, time_scale) ==
    base_columns(row, compute_volume(row.series, volume_scale),
                 compute_flow(compute_volume(row.series, volume_scale),
                              time_scale))

\* derive_base_curves(df, volume_scale, time_scale); np.max of an empty
\* volume curve raises ValueError.
derive_base_curves(df, volume_scale, time_scale) ==
    IF \E r \in DOMAIN df : Len(df[r].series) = 0
    THEN Fail("ValueError")
    ELSE Ok(Array([r \in DOMAIN df |->
                      base_row(df[r], volume_scale, time_scale)]))

---------------------------------------------------------------------------
(* The resampler, the time axis and the flow-volume interpolator           *)

\* An array handed to right_pad_array: its element type, which np.pad
\* keeps, and its elements.
ndarray(dtype, data) == [dtype |-> dtype, data |-> data]

\* The integer part of a, rounded towards zero.
FTrunc(a) ==
    IF a[3] >= 0 THEN a ELSE FMake(a[1], BigShr(a[2], 0 - a[3]), 0)

\* The value v as an array of the element type dtype stores it: rounded to
\* float32 or to float64, or cut to its integer part for int64.
astype(dtype, v) ==
    CASE dtype = "float32" -> F32(v)
      [] dtype = "float64" -> F64(v)
      [] dtype = "int64" -> FTrunc(v)

\* np.pad(array, (0, after), mode='constant', constant_values=v): an array
\* of the same element type, the fill stored in that type.
np_pad(array, after, constant_values) ==
    ndarray(array.dtype,
            array.data \o Array([i \in 1 .. after |->
                                    astype(array.dtype, constant_values)]))

\* right_pad_array without the truncating slice.
right_pad_array_no_cut(array, pad_value, max_num_points) ==
    np_pad(array, max_num_points - Len(array.data), pad_value)

\* right_pad_array(array, pad_value, max_num_points), max_num_points >= 0:
\* the slice to min(len(array), max_num_points), then np.pad on the right.
right_pad_array(array, pad_value, max_num_points) ==
    LET cut == ndarray(array.dtype,
                       SliceTo(array.data,
                               Min(Len(array.data), max_num_points)))
    IN  np_pad(cut, max_num_points - Len(cut.data), pad_value)

\* The num points of np.linspace for a given step.
linspace_by(start, stop, num, step) ==
    Array([k \in 1 .. num |->
              IF num = 1 THEN start
              ELSE IF k = num THEN stop
              ELSE F64(XAdd(F64(XMul(R(k - 1), step)), start))])

\* np.linspace(start, stop, num) with the endpoint included, in float64:
\* arange(num) * step + start with step = (stop - start) / (num - 1), each
\* operation rounded, and the last point set to stop; start alone for
\* num = 1.
linspace(start, stop, num) ==
    linspace_by(start, stop, num,
                FDiv(53, F64(XSub(stop, start)), R(num - 1)))

\* compute_time: time_scale * np.linspace(0, n, num=n, endpoint=False,
\* dtype=np.float32). The grid is the float32 array 0, 1, ..., n - 1, and
\* its product with the Python float is taken in float32, time_scale
\* rounded to float32 first.
compute_time(max_num_points, time_scale) ==
    LET scale == F32(time_scale)
    IN  Array([k \in 1 .. max_num_points |-> F32(XMul(scale, R(k - 1)))])

\* np.maximum.accumulate(a): the running maximum.
RECURSIVE maximum_accumulate(_)
maximum_accumulate(a) ==
    IF Len(a) <= 1
    THEN a
    ELSE LET front == maximum_accumulate(SubSeq(a, 1, Len(a) - 1))
         IN  Append(front, RMax(front[Len(front)], a[Len(a)]))

\* np.interp at a point x of the segment j, xp[j] <= x < xp[j+1]: fp[-1]
\* at xp[-1], fp[j] itself when x = xp[j], else slope * (x - xp[j]) + fp[j]
\* with the slope, the difference, the product and the sum each rounded.
interp_segment(x, xp, fp, j) ==
    IF j = Len(xp) THEN fp[j]
    ELSE IF xp[j] = x THEN fp[j]
    ELSE F64(XAdd(F64(XMul(FDiv(53, F64(XSub(fp[j + 1], fp[j])),
                                F64(XSub(xp[j + 1], xp[j]))),
                           F64(XSub(x, xp[j])))),
                  fp[j]))

\* np.interp at one point x against non-empty xp (non-decreasing) and fp,
\* all taken as float64: left below xp[0], right above xp[-1], and
\* otherwise the value on the last segment j with xp[j] <= x.
interp_point(x, xp, fp, left, right) ==
    IF RLt(x, xp[1]) THEN left
    ELSE IF RLt(xp[Len(xp)], x) THEN right
    ELSE interp_segment(x, xp, fp,
                        CHOOSE k \in 1 .. Len(xp) :
                            /\ RLeq(xp[k], x)
                            /\ \A m \in (k + 1) .. Len(xp) : RLt(x, xp[m]))

\* np.interp(x, xp, fp, left, right) for an array x.
np_interp(x, xp, fp, left, right) ==
    Array([k \in DOMAIN x |-> interp_point(x[k], xp, fp, left, right)])

\* compute_flow_volume with np.interp's default edge values: fp[0] below
\* xp[0] and fp[-1] above xp[-1].
compute_flow_volume_default_edges(flow, volume, min_volume, max_volume, num_points) ==
    LET monotonic_volume == maximum_accumulate(volume)
    IN  IF \E i \in 1 .. (Len(monotonic_volume) - 1) :
                RLt(monotonic_volume[i + 1], monotonic_volume[i])
        THEN Fail("AssertionError")
        ELSE IF Len(monotonic_volume) = 0 \/ Len(flow) # Len(monotonic_volume)
        THEN Fail("ValueError")
        ELSE Ok(np_interp(linspace(min_volume, max_volume, num_points),
                          monotonic_volume, flow, flow[1], flow[Len(flow)]))

\* compute_flow_volume(flow, volume, min_volume, max_volume, num_points).
\* The assertion on the running maximum cannot fail; np.interp raises
\* ValueError on an empty xp or on fp and xp of different lengths.
compute_flow_volume(flow, volume, min_volume, max_volume, num_points) ==
    LET monotonic_volume == maximum_accumulate(volume)
    IN  IF \E i \in 1 .. (Len(monotonic_volume) - 1) :
                RLt(monotonic_volume[i + 1], monotonic_volume[i])
        THEN Fail("AssertionError")
        ELSE IF Len(monotonic_volume) = 0 \/ Len(flow) # Len(monotonic_volume)
        THEN Fail("ValueError")
        ELSE Ok(np_interp(linspace(min_volume, max_volume, num_points),
                          monotonic_volume, flow, R(0), R(0)))

---------------------------------------------------------------------------
(* compute_fef                                                             *)

\* The threshold f * volume_max as the comparison with a float32 array
\* takes it: the float64 product rounded to float32.
threshold(f, volume_max) == F32(F64(XMul(f, volume_max)))

\* a >= t, elementwise.
at_least(a, t) == Array([i \in DOMAIN a |-> RGeq(a[i], t)])

\* volume >= (f * volume_max), elementwise, for the float32 volume curve
\* compute_volume returns.
volumes_over(volume, f, volume_max) ==
    at_least(volume, threshold(f, volume_max))

\* any(b)
py_any(b) == \E i \in DOMAIN b : b[i]

\* argmax returning the index of the last True.
argmax_last(b) ==
    IF py_any(b)
    THEN (CHOOSE i \in DOMAIN b : b[i] /\ \A j \in (i + 1) .. Len(b) : ~b[j]) - 1
    ELSE 0

\* np.argmax of a boolean array: the 0-based index of its first True, and 0
\* when no element is True.
argmax(b) ==
    IF py_any(b)
    THEN (CHOOSE i \in DOMAIN b : b[i] /\ \A j \in 1 .. (i - 1) : ~b[j]) - 1
    ELSE 0

\* idx_25 taken at the 75% threshold.
idx_25_at_75(volume, volume_max) ==
    argmax(volumes_over(volume, ThreeQuarters, volume_max))

idx_25(volume, volume_max) ==
    argmax(volumes_over(volume, Quarter, volume_max))

idx_50(volume, volume_max) ==
    argmax(volumes_over(volume, Half, volume_max))

idx_75(volume, volume_max) ==
    argmax(volumes_over(volume, ThreeQuarters, volume_max))

\* a.mean() of a non-empty float64 array: the sum divided by the count.
np_mean(a) == FDiv(53, np_sum(a), R(Len(a)))

\* fef25_75 over the slice flow[idx_25 : idx_75], its right end excluded.
fef25_75_exclusive(flow, i25, i75) ==
    IF i75 > i25 THEN np_mean(Slice(flow, i25, i75)) ELSE R(0)

\* flow[idx_25 : (idx_75 + 1)].mean()
fef25_75(flow, i25, i75) == np_mean(Slice(flow, i25, i75 + 1))

\* The end of compute_fef, given the three indices: the ordering assertion
\* and the tuple (fef25, fef50, fef75, fef25_75).
fef_at(flow, i25, i50, i75) ==
    IF ~(0 <= i25 /\ i25 <= i50 /\ i50 <= i75 /\ i75 < Len(flow))
    THEN Fail("AssertionError")
    ELSE Ok(<<flow[i25 + 1], flow[i50 + 1], flow[i75 + 1],
              fef25_75(flow, i25, i75)>>)

\* compute_fef without the check that a sample reaches 75% of volume_max.
compute_fef_unchecked(flow, volume, volume_max) ==
    IF Len(flow) # Len(volume) THEN Fail("AssertionError")
    ELSE IF ~(Len(flow) > 1) THEN Fail("AssertionError")
    ELSE fef_at(flow, idx_25(volume, volume_max), idx_50(volume, volume_max),
                idx_75(volume, volume_max))

\* compute_fef(flow, volume, volume_max): the two length assertions, the
\* ValueError when no sample reaches 75% of volume_max, the ordering
\* assertion, and the tuple (fef25, fef50, fef75, fef25_75).
compute_fef(flow, volume, volume_max) ==
    IF Len(flow) # Len(volume) THEN Fail("AssertionError")
    ELSE IF ~(Len(flow) > 1) THEN Fail("AssertionError")
    ELSE IF ~py_any(volumes_over(volume, ThreeQuarters, volume_max))
    THEN Fail("ValueError")
    ELSE fef_at(flow, idx_25(volume, volume_max), idx_50(volume, volume_max),
                idx_75(volume, volume_max))

---------------------------------------------------------------------------
(* derive_input_representations                                            *)

\* row['volume'], the float32 array compute_volume returns, and row['flow'],
\* the float64 array np.concatenate returns in compute_flow.
volume_array(row) == ndarray("float32", row.volume)

flow_array(row) == ndarray("float64", row.flow)

\* The flow-volume column of one row: compute_flow_volume on the zero-padded
\* flow and the zero-padded volume, over [0, max_interp_volume].
flow_volume_of(row, max_num_points, max_interp_volume) ==
    compute_flow_volume(
        right_pad_array(flow_array(row), R(0), max_num_points).data,
        right_pad_array(volume_array(row), R(0), max_num_points).data,
        R(0), max_interp_volume, max_num_points)

\* The FEF columns of one row: compute_fef on the unpadded curves.
fef_of(row) == compute_fef(row.flow, row.volume, row.volume_max)

\* repr_row with the flow derived after padding: flow_pad_zero as the
\* derivative of the zero-padded volume curve.
repr_row_flow_after_pad(row, time_curve, flow_volume, fef, max_num_points, time_scale) ==
    [num_points |-> row.num_points,
     volume_max |-> row.volume_max,
     volume_last |-> row.volume_last,
     flow_max |-> row.flow_max,
     flow_last |-> row.flow_last,
     time |-> time_curve,
     volume_pad_zero |->
         right_pad_array(volume_array(row), R(0), max_num_points).data,
     volume_pad_last |->
         right_pad_array(volume_array(row), row.volume_last,
                         max_num_points).data,
     flow_pad_zero |->
         compute_flow(right_pad_array(volume_array(row), R(0),
                                      max_num_points).data,
                      time_scale),
     flow_volume_pad_zero |-> flow_volume,
     blow_fef25 |-> fef[1],
     blow_fef50 |-> fef[2],
     blow_fef75 |-> fef[3],
     blow_fef25_75 |-> fef[4]]

\* One row of derive_input_representations, given the time curve, the
\* row's flow-volume curve and its FEF tuple: the columns added, 'volume'
\* and 'flow' dropped.
repr_row(row, time_curve, flow_volume, fef, max_num_points, time_scale) ==
    [num_points |-> row.num_points,
     volume_max |-> row.volume_max,
     volume_last |-> row.volume_last,
     flow_max |-> row.flow_max,
     flow_last |-> row.flow_last,
     time |-> time_curve,
     volume_pad_zero |->
         right_pad_array(volume_array(row), R(0), max_num_points).data,
     volume_pad_last |->
         right_pad_array(volume_array(row), row.volume_last,
                         max_num_points).data,
     flow_pad_zero |->
         right_pad_array(flow_array(row), R(0), max_num_points).data,
     flow_volume_pad_zero |-> flow_volume,
     blow_fef25 |-> fef[1],
     blow_fef50 |-> fef[2],
     blow_fef75 |-> fef[3],
     blow_fef25_75 |-> fef[4]]

\* The frame derive_input_representations returns, given the time curve
\* and the flow-volume and FEF columns of all rows: the error of the first
\* row whose flow-volume column failed, else of the first row whose FEF
\* column failed, else the rows with their derived columns.
repr_frame(df, time_curve, flow_volume, fef, max_num_points, time_scale) ==
    LET badfv == {r \in DOMAIN df : ~flow_volume[r].ok}
        badfef == {r \in DOMAIN df : ~fef[r].ok}
        least(S) == CHOOSE r \in S : \A q \in S : r <= q
    IN  IF badfv # {}
        THEN Fail(flow_volume[least(badfv)].err)
        ELSE IF badfef # {}
        THEN Fail(fef[least(badfef)].err)
        ELSE Ok(Array([r \in DOMAIN df |->
                          repr_row(df[r], time_curve, flow_volume[r].val,
                                   fef[r].val, max_num_points, time_scale)]))

\* derive_input_representations(df, max_num_points, max_interp_volume,
\* time_scale): the time curve is computed once, and each column is
\* computed for all rows before the next, so a failure of the flow-volume
\* column comes before any failure of compute_fef.
derive_input_representations(df, max_num_points, max_interp_volume, time_scale) ==
    repr_frame(df, compute_time(max_num_points, time_scale),
               Array([r \in DOMAIN df |->
                         flow_volume_of(df[r], max_num_points,
                                        max_interp_volume)]),
               Array([r \in DOMAIN df |-> fef_of(df[r])]),
               max_num_points, time_scale)

---------------------------------------------------------------------------
(* build_npy_files                                                         *)

\* get_time_flow_volume_np taking the zero-padded volume column.
get_time_flow_volume_np_pad_zero(df) ==
    <<[r \in DOMAIN df |-> df[r].flow_pad_zero],
      [r \in DOMAIN df |-> df[r].volume_pad_zero]>>

\* get_time_flow_volume_np: the flow rows and the volume rows.
get_time_flow_volume_np(df) ==
    <<[r \in DOMAIN df |-> df[r].flow_pad_zero],
      [r \in DOMAIN df |-> df[r].volume_pad_last]>>

\* join_flow_volume_in_channel: flow in channel 0, volume in channel 1.
join_flow_volume_in_channel(flow_np, volume_np) ==
    [r \in DOMAIN flow_np |->
        [i \in DOMAIN flow_np[r] |-> <<flow_np[r][i], volume_np[r][i]>>]]

\* np.expand_dims(a, axis=2) of a two-dimensional array.
expand_dims(a) == [r \in DOMAIN a |-> [i \in DOMAIN a[r] |-> <<a[r][i]>>]]

\* get_flow_by_volume_np
get_flow_by_volume_np(df) ==
    expand_dims([r \in DOMAIN df |-> df[r].flow_volume_pad_zero])

\* np.concatenate((a, b), axis=-1) of two three-dimensional arrays.
concatenate_channels(a, b) ==
    [r \in DOMAIN a |-> [i \in DOMAIN a[r] |-> a[r][i] \o b[r][i]]]

\* np.repeat as np.tile: the whole array n times, one copy after another.
np_tile(a, n) == [k \in 1 .. (Len(a) * n) |-> a[((k - 1) % Len(a)) + 1]]

\* np.repeat(a, n, axis=0): each row n times, in row order.
np_repeat(a, n) == [k \in 1 .. (Len(a) * n) |-> a[((k - 1) \div n) + 1]]

\* The shape assertions on the curve arrays: every row holds the fixed
\* number of samples.
shape_ok(a) == \A r \in DOMAIN a : Len(a[r]) = MAX_NUM_POINTS

\* build_npy_files(df, duplicates)
build_npy_files(df, dups) ==
    LET fv == get_time_flow_volume_np(df)
        flow_and_volume_np == join_flow_volume_in_channel(fv[1], fv[2])
        flow_by_volume_np == get_flow_by_volume_np(df)
        volume_by_time_np == expand_dims(fv[2])
        three_curves_np ==
            concatenate_channels(flow_and_volume_np, flow_by_volume_np)
        rep(a) == IF dups > 1 THEN np_repeat(a, dups) ELSE a
        derived_features ==
            [k \in 1 .. (Len(df) * dups) |-> [j \in 1 .. 5 |-> R(0)]]
    IN  IF ~(dups >= 1) THEN Fail("AssertionError")
        ELSE IF ~(/\ shape_ok(flow_and_volume_np)
                  /\ shape_ok(flow_by_volume_np)
                  /\ shape_ok(volume_by_time_np)
                  /\ shape_ok(three_curves_np))
        THEN Fail("AssertionError")
        ELSE Ok([flow_volume_in_channels |-> rep(flow_and_volume_np),
                 flow_by_volume_one_channel |-> rep(flow_by_volume_np),
                 volume_by_time_one_channel |-> rep(volume_by_time_np),
                 three_curves_in_channels |-> rep(three_curves_np),
                 derived_features |-> derived_features])

---------------------------------------------------------------------------
(* write_npy_files                                                         *)

\* The file names of build_npy_files' mapping, in the order of the
\* dictionary, which is the order write_npy_files writes them in.
FileNames ==
    <<"flow_volume_in_channels", "flow_by_volume_one_channel",
      "volume_by_time_one_channel", "three_curves_in_channels",
      "derived_features">>

\* What the file system does to a call of write_npy_files: nothing
\* ("none"), or an OSError raised by os.makedirs ("makedirs"), by the open
\* of the file-th file ("open"), or by np.save while it writes the file-th
\* file ("save").
Faults ==
    {[in |-> "none", file |-> 0], [in |-> "makedirs", file |-> 0]}
        \cup [in : {"open", "save"}, file : 1 .. Len(FileNames)]

\* A file np.save has written, and a file that was opened for writing, and
\* so emptied, and that np.save did not finish.
Saved(contents) == [complete |-> TRUE, contents |-> contents]

Unfinished == [complete |-> FALSE, contents |-> << >>]

\* write_npy_files(out_dir, filename_to_contents) under the fault, disk
\* being the files of out_dir before the call: .disk is the files of
\* out_dir after it. The files are written one after the other; an OSError
\* leaves the files before the failing one written, and the later ones as
\* they were.
write_npy_files(disk, filename_to_contents, fault) ==
    LET last == IF fault.in = "none" THEN Len(FileNames)
                ELSE IF fault.in = "makedirs" THEN 0
                ELSE fault.file - 1
        saved == {FileNames[k] : k \in 1 .. last}
        opened == IF fault.in = "save" THEN {FileNames[fault.file]} ELSE {}
        after == [n \in (DOMAIN disk) \cup saved \cup opened |->
                     IF n \in saved THEN Saved(filename_to_contents[n])
                     ELSE IF n \in opened THEN Unfinished
                     ELSE disk[n]]
    IN  [ok |-> fault.in = "none",
         err |-> IF fault.in = "none" THEN "" ELSE "OSError",
         disk |-> after]

---------------------------------------------------------------------------
(* The pipeline of main, run on the caller's list and then run again on    *)
(* the same list.                                                          *)

\* The sizes of the batches.
BatchSizes == {1, 2}

\* The raw samples of a record's series.
RawSamples == {0, 1}

SeriesSet == UNION {[1 .. n -> RawSamples] : n \in 0 .. MaxLen}

\* The record dictionaries; the identifiers (eid, visit_id, blow_order,
\* blow_index) are carried through unread and are left out.
RecordSet == [num_points : 1 .. MaxPts, series : SeriesSet]

\* The records that follow the first one of a batch: those of at most two
\* raw samples.
ShortRecordSet == {rec \in RecordSet : Len(rec.series) <= 2}

\* The batches: a record, alone or followed by short records.
Batches ==
    UNION {{b \in [1 .. m -> RecordSet] :
               \A i \in 2 .. m : b[i] \in ShortRecordSet} : m \in BatchSizes}

NoCall == [fn |-> "none", done |-> FALSE]

Init ==
    /\ records \in Batches
    /\ batch = records
    /\ duplicates \in 0 .. MaxDup
    /\ run = 1
    /\ pc = "start"
    /\ stage = ""
    /\ err = ""
    /\ trimmed_df = << >>
    /\ base_df = << >>
    /\ repr_df = << >>
    /\ files = << >>
    /\ written = << >>
    /\ first = << >>
    /\ call = NoCall

\* main, line 1: trimmed_records_df = trim_records(UKB_3066_RECORDS)
Trim ==
    /\ pc = "start"
    /\ \E r \in {trim_records(records)} :
           /\ records' = r.records
           /\ IF r.ok
              THEN /\ pc' = "trimmed"
                   /\ trimmed_df' = r.records
                   /\ UNCHANGED <<stage, err>>
              ELSE /\ pc' = "failed"
                   /\ stage' = "trim_records"
                   /\ err' = r.err
                   /\ UNCHANGED trimmed_df
    /\ UNCHANGED <<batch, duplicates, run, base_df, repr_df, files, written,
                   first, call>>

\* main, line 2: base_curve_dfs = derive_base_curves(trimmed_records_df)
DeriveBase ==
    /\ pc = "trimmed"
    /\ \E r \in {derive_base_curves(trimmed_df, VOLUME_SCALE, TIME_SCALE)} :
           IF r.ok
           THEN /\ pc' = "base"
                /\ base_df' = r.val
                /\ UNCHANGED <<stage, err>>
           ELSE /\ pc' = "failed"
                /\ stage' = "derive_base_curves"
                /\ err' = r.err
                /\ UNCHANGED base_df
    /\ UNCHANGED <<records, batch, duplicates, run, trimmed_df, repr_df,
                   files, written, first, call>>

\* main, line 3: blow_curve_derived_df = derive_input_representations(...)
DeriveInput ==
    /\ pc = "base"
    /\ \E r \in {derive_input_representations(base_df, MAX_NUM_POINTS,
                                                 MAX_INTERP_VOLUME,
                                                 TIME_SCALE)} :
           IF r.ok
           THEN /\ pc' = "repr"
                /\ repr_df' = r.val
                /\ UNCHANGED <<stage, err>>
           ELSE /\ pc' = "failed"
                /\ stage' = "derive_input_representations"
                /\ err' = r.err
                /\ UNCHANGED repr_df
    /\ UNCHANGED <<records, batch, duplicates, run, trimmed_df, base_df,
                   files, written, first, call>>

\* main, line 4: filename_to_contents = build_npy_files(df, duplicates)
BuildNpy ==
    /\ pc = "repr"
    /\ \E r \in {build_npy_files(repr_df, duplicates)} :
           IF r.ok
           THEN /\ pc' = "built"
                /\ files' = <<r.val>>
                /\ UNCHANGED <<stage, err>>
           ELSE /\ pc' = "failed"
                /\ stage' = "build_npy_files"
                /\ err' = r.err
                /\ UNCHANGED files
    /\ UNCHANGED <<records, batch, duplicates, run, trimmed_df, base_df,
                   repr_df, written, first, call>>

\* main, line 5: write_npy_files(out_dir, filename_to_contents)
WriteNpy ==
    /\ pc = "built"
    /\ \E fault \in Faults :
          \E r \in {write_npy_files(written, files[1], fault)} :
              /\ written' = r.disk
              /\ IF r.ok
                 THEN /\ pc' = "written"
                      /\ UNCHANGED <<stage, err>>
                 ELSE /\ pc' = "failed"
                      /\ stage' = "write_npy_files"
                      /\ err' = r.err
    /\ UNCHANGED <<records, batch, duplicates, run, trimmed_df, base_df,
                   repr_df, files, first, call>>

\* The pipeline is run a second time on the same list, with the same
\* duplicates and the same out_dir: the outcome of the first run is kept
\* for comparison, the files of out_dir stay, and everything else but the
\* caller's list starts afresh.
Rerun ==
    /\ run = 1
    /\ pc \in {"written", "failed"}
    /\ first' = <<[pc |-> pc, stage |-> stage, err |-> err,
                   files |-> files, batch |-> batch]>>
    /\ run' = 2
    /\ pc' = "start"
    /\ batch' = records
    /\ stage' = ""
    /\ err' = ""
    /\ trimmed_df' = << >>
    /\ base_df' = << >>
    /\ repr_df' = << >>
    /\ files' = << >>
    /\ UNCHANGED <<records, duplicates, written, call>>

Next ==
    \/ Trim
    \/ DeriveBase
    \/ DeriveInput
    \/ BuildNpy
    \/ WriteNpy
    \/ Rerun

Spec == Init /\ [][Next]_vars

---------------------------------------------------------------------------
(* Single calls of the pure functions, on arguments drawn from bounded     *)
(* sets: call holds the function and its arguments and, once the call has  *)
(* been made (call.done), what it returned.                                *)

pipeline_vars == <<records, batch, duplicates, run, pc, stage, err,
                   trimmed_df, base_df, repr_df, files, written, first>>

\* Curves of up to n samples over the set V, from lo samples on.
Curves(V, lo, n) == UNION {[1 .. k -> V] : k \in lo .. n}

\* The samples of the curves handed to right_pad_array, which every element
\* type holds, and the element types.
PadSamples == {R(v) : v \in 0 .. MaxVal}

PadDtypes == {"float32", "float64", "int64"}

\* The fill values handed to right_pad_array: a sample of the curves, a
\* value that is none of them, and the Python floats 0.1, which float32
\* does not hold, and -2.5, which int64 does not hold.
PadFills ==
    {R(0), R(MaxVal + 1), FDiv(53, R(1), R(10)), FDiv(53, R(0 - 5), R(2))}

\* The calls right_pad_array(array, pad_value, max_num_points).
RightPadCalls ==
    [fn : {"right_pad_array"}, done : {FALSE},
     array : {ndarray(dtype, data) :
                 dtype \in PadDtypes, data \in Curves(PadSamples, 0, MaxLen)},
     pad_value : PadFills,
     max_num_points : 0 .. MaxPad]

\* The scales handed to derive_base_curves.
Scales == {VOLUME_SCALE, TIME_SCALE, R(1), R(2)}

\* The calls derive_base_curves(df, volume_scale, time_scale), df the data
\* frame of one record with the given series.
DeriveBaseCalls ==
    [fn : {"derive_base_curves"}, done : {FALSE},
     series : Curves(0 .. MaxVal, 1, MaxLen),
     volume_scale : Scales,
     time_scale : Scales]

\* The flow curves handed to compute_fef and to compute_flow_volume: of each
\* length from lo to n, the float64 curves 1/3, 2/3, 3/3, ... and -1/3,
\* -2/3, -3/3, ..., which differ at every index and whose sums and means
\* need rounding.
FlowSigns == {0 - 1, 1}

FlowCurves(lo, n) ==
    {Array([i \in 1 .. k |-> FDiv(53, R(s * i), R(3))]) :
        k \in lo .. n, s \in FlowSigns}

\* The volume, in liters, of the raw sample v.
Liters(v) == compute_volume(<<v>>, VOLUME_SCALE)[1]

\* The samples of the volume curves handed to compute_fef: float32 volumes
\* as compute_volume returns them, two of them negative.
FefSamples == {Liters(v) : v \in {0 - MaxFef, 1 - MaxFef} \cup (0 .. MaxFef)}

\* The values of volume_max handed to compute_fef.
FefMaxima == {Liters(0 - MaxFef), R(0), Liters(MaxFef)}

\* The calls compute_fef(flow, volume, volume_max), on curves of equal
\* length.
ComputeFefCalls ==
    {c \in [fn : {"compute_fef"}, done : {FALSE},
            flow : FlowCurves(1, MaxFefLen),
            volume : Curves(FefSamples, 1, MaxFefLen),
            volume_max : FefMaxima] :
        Len(c.flow) = Len(c.volume)}

\* The ends of the volume range handed to compute_flow_volume.
MinVolumes == {R(0), R(1)}

MaxVolumes == {R(1), R(MaxVal + 1)}

\* The calls compute_flow_volume(flow, volume, min_volume, max_volume,
\* num_points), on curves of equal length.
FlowVolumeCalls ==
    {c \in [fn : {"compute_flow_volume"}, done : {FALSE},
            flow : FlowCurves(0, MaxFefLen),
            volume : Curves(PadSamples, 0, MaxFefLen),
            min_volume : MinVolumes,
            max_volume : MaxVolumes,
            num_points : 0 .. MaxPts] :
        Len(c.flow) = Len(c.volume)}

InitCalls ==
    /\ records = << >>
    /\ batch = << >>
    /\ duplicates = 1
    /\ run = 1
    /\ pc = "idle"
    /\ stage = ""
    /\ err = ""
    /\ trimmed_df = << >>
    /\ base_df = << >>
    /\ repr_df = << >>
    /\ files = << >>
    /\ written = << >>
    /\ first = << >>
    /\ call \in RightPadCalls \cup DeriveBaseCalls \cup ComputeFefCalls
                  \cup FlowVolumeCalls

\* right_pad_array(array, pad_value, max_num_points)
CallRightPad ==
    /\ call.fn = "right_pad_array"
    /\ ~call.done
    /\ call' = [fn |-> call.fn, done |-> TRUE,
                array |-> call.array,
                pad_value |-> call.pad_value,
                max_num_points |-> call.max_num_points,
                ret |-> right_pad_array(call.array, call.pad_value,
                                        call.max_num_points)]
    /\ UNCHANGED pipeline_vars

\* derive_base_curves(df, volume_scale, time_scale)
CallDeriveBase ==
    /\ call.fn = "derive_base_curves"
    /\ ~call.done
    /\ call' = [fn |-> call.fn, done |-> TRUE,
                series |-> call.series,
                volume_scale |-> call.volume_scale,
                time_scale |-> call.time_scale,
                ret |-> derive_base_curves(
                            <<[num_points |-> Len(call.series) - 1,
                               series |-> call.series]>>,
                            call.volume_scale, call.time_scale)]
    /\ UNCHANGED pipeline_vars

\* compute_fef(flow, volume, volume_max)
CallComputeFef ==
    /\ call.fn = "compute_fef"
    /\ ~call.done
    /\ call' = [fn |-> call.fn, done |-> TRUE,
                flow |-> call.flow,
                volume |-> call.volume,
                volume_max |-> call.volume_max,
                ret |-> compute_fef(call.flow, call.volume, call.volume_max)]
    /\ UNCHANGED pipeline_vars

\* compute_flow_volume(flow, volume, min_volume, max_volume, num_points)
CallFlowVolume ==
    /\ call.fn = "compute_flow_volume"
    /\ ~call.done
    /\ call' = [fn |-> call.fn, done |-> TRUE,
                flow |-> call.flow,
                volume |-> call.volume,
                min_volume |-> call.min_volume,
                max_volume |-> call.max_volume,
                num_points |-> call.num_points,
                ret |-> compute_flow_volume(call.flow, call.volume,
                                            call.min_volume, call.max_volume,
                                            call.num_points)]
    /\ UNCHANGED pipeline_vars

NextCalls ==
    \/ CallRightPad
    \/ CallDeriveBase
    \/ CallComputeFef
    \/ CallFlowVolume

SpecCalls == InitCalls /\ [][NextCalls]_vars

---------------------------------------------------------------------------
(* Claims about the trimmer and the pipeline, checked under Spec.          *)

\* The data-model invariant of a blow record: num_points >= 1,
\* len(raw_series) >= num_points, and the first len(raw_series) - num_points
\* entries all zero.
DataModelInvariant(rec) ==
    /\ rec.num_points >= 1
    /\ Len(rec.series) >= rec.num_points
    /\ \A i \in 1 .. (Len(rec.series) - rec.num_points) : rec.series[i] = 0

\* The record holds at least one zero before its num_points real samples.
ZeroPadded(rec) ==
    /\ DataModelInvariant(rec)
    /\ Len(rec.series) >= rec.num_points + 1

\* t is the trimmed series the claim describes for rec: num_points + 1
\* entries, a zero and then the last num_points entries of the raw series.
TrimmedAsClaimed(rec, t) ==
    /\ Len(t) = rec.num_points + 1
    /\ t[1] = 0
    /\ \A k \in 1 .. rec.num_points :
          t[k + 1] = rec.series[Len(rec.series) - rec.num_points + k]

\* trim_records has returned normally in the current run.
TrimSucceeded ==
    \/ pc \in {"trimmed", "base", "repr", "built", "written"}
    \/ (pc = "failed" /\ stage # "trim_records")

\* trim_records has returned or raised in the current run.
TrimActed == pc \notin {"start", "idle"}

\* C1 as stated: for every record satisfying the data-model invariant
\* (records with len(raw_series) = num_points included), trim_records
\* succeeds and leaves the trimmed series of length num_points + 1, first
\* element 0, then the last num_points raw entries.
C1_TrimDataModel ==
    (TrimActed /\ \A i \in DOMAIN batch : DataModelInvariant(batch[i]))
        => /\ TrimSucceeded
           /\ \A i \in DOMAIN batch :
                 TrimmedAsClaimed(batch[i], records[i].series)

\* C1 amended: for every record satisfying the data-model invariant with
\* len(raw_series) >= num_points + 1 (at least one padding zero),
\* trim_records succeeds and the trimmed series has length num_points + 1,
\* first element 0, and then the last num_points raw entries in order.
C1_TrimZeroPadded ==
    (TrimActed /\ \A i \in DOMAIN batch : ZeroPadded(batch[i]))
        => /\ TrimSucceeded
           /\ trimmed_df = records
           /\ \A i \in DOMAIN batch :
                 TrimmedAsClaimed(batch[i], records[i].series)

\* A first run has trimmed a batch of zero-padded records, one of which
\* held more than one padding zero and a non-zero sample.
C1_Witness ==
    /\ run = 1
    /\ pc = "trimmed"
    /\ \A i \in DOMAIN batch : ZeroPadded(batch[i])
    /\ \E i \in DOMAIN batch :
          /\ Len(batch[i].series) > batch[i].num_points + 1
          /\ \E k \in DOMAIN batch[i].series : batch[i].series[k] # 0
          /\ records[i].series # batch[i].series

\* The record has a non-zero entry among its first
\* len(raw_series) - num_points samples.
Malformed(rec) ==
    \E i \in 1 .. (Len(rec.series) - rec.num_points) : rec.series[i] # 0

\* Nothing has been derived or emitted in the current run.
NothingEmitted ==
    /\ trimmed_df = << >>
    /\ base_df = << >>
    /\ repr_df = << >>
    /\ files = << >>
    /\ written = << >>

\* C2: when a record of the batch has a non-zero entry in its zero prefix,
\* the run fails in trim_records and no data frame, derived array or output
\* mapping exists for any record of the batch.
C2_MalformedAborts ==
    (\E i \in DOMAIN batch : Malformed(batch[i]))
        => /\ pc \in {"start", "failed"}
           /\ pc = "failed" => stage = "trim_records" /\ err = "AssertionError"
           /\ NothingEmitted

\* A run has failed on a two-record batch whose second record is malformed
\* and whose first record is well formed and was trimmed before the failure.
C2_Witness ==
    /\ pc = "failed"
    /\ run = 1
    /\ Len(batch) = 2
    /\ ZeroPadded(batch[1])
    /\ Malformed(batch[2])
    /\ records[1].series # batch[1].series
    /\ TrimmedAsClaimed(batch[1], records[1].series)
    /\ NothingEmitted

\* C3 as stated: trim_records leaves the caller's record dictionaries as
\* they were: each still holds the raw series it held before the call.
C3_NoSideEffect == records = batch

\* The four functions of the pipeline before write_npy_files have run to
\* their end, or one of them has raised, in the current run.
PipelineEnded ==
    \/ pc \in {"built", "written"}
    \/ pc = "failed"

\* The outcome of those four functions in a run that ended at p, with the
\* stage st that raised, the exception e and the mapping f: the stage and
\* the exception of the failure, or the mapping built.
Outcome(p, st, e, f) ==
    IF p = "failed" /\ st # "write_npy_files"
    THEN [ok |-> FALSE, stage |-> st, err |-> e, files |-> << >>]
    ELSE [ok |-> TRUE, stage |-> "", err |-> "", files |-> f]

\* C4: the second run of trim_records, derive_base_curves,
\* derive_input_representations and build_npy_files on the same list, with
\* the same duplicates, ends as the first did: at the same stage with the
\* same exception, or with the same arrays under every output name.
C4_Idempotent ==
    (run = 2 /\ PipelineEnded)
        => Outcome(first[1].pc, first[1].stage, first[1].err, first[1].files)
              = Outcome(pc, stage, err, files)

\* A second run has built its arrays, of a two-record list that the first
\* run had changed by trimming, and has written them over the files of the
\* first run.
C4_Witness ==
    /\ run = 2
    /\ pc = "written"
    /\ files # << >>
    /\ first[1].pc = "written"
    /\ first[1].files = files
    /\ first[1].batch # records
    /\ Len(records) = 2
    /\ \A k \in DOMAIN FileNames :
          written[FileNames[k]] = Saved(files[1][FileNames[k]])

---------------------------------------------------------------------------
(* Claims about the pure functions, checked under SpecCalls.               *)

\* C5 as stated: right_pad_array(curve, fill, N), N >= 0, has length
\* exactly N; with len(curve) >= N it is the first N samples of curve, and
\* with len(curve) < N it is curve followed by N - len(curve) copies of
\* fill.
C5_RightPad ==
    (call.fn = "right_pad_array" /\ call.done)
        => LET curve == call.array.data
               N == call.max_num_points
           IN  /\ Len(call.ret.data) = N
               /\ Len(curve) >= N
                     => \A i \in 1 .. N : call.ret.data[i] = curve[i]
               /\ Len(curve) < N
                     => /\ \A i \in 1 .. Len(curve) :
                              call.ret.data[i] = curve[i]
                        /\ \A i \in (Len(curve) + 1) .. N :
                              call.ret.data[i] = call.pad_value

\* C5, amended: right_pad_array(curve, fill, N), N >= 0, is an array of the
\* element type of curve and of length exactly N; with len(curve) >= N it is
\* the first N samples of curve, and with len(curve) < N it is curve
\* followed by N - len(curve) copies of fill as that element type stores
\* it, which is fill itself when the type holds fill.
C5_RightPadStored ==
    (call.fn = "right_pad_array" /\ call.done)
        => LET curve == call.array.data
               N == call.max_num_points
               stored == astype(call.array.dtype, call.pad_value)
           IN  /\ call.ret.dtype = call.array.dtype
               /\ Len(call.ret.data) = N
               /\ Len(curve) >= N
                     => \A i \in 1 .. N : call.ret.data[i] = curve[i]
               /\ Len(curve) < N
                     => /\ \A i \in 1 .. Len(curve) :
                              call.ret.data[i] = curve[i]
                        /\ \A i \in (Len(curve) + 1) .. N :
                              call.ret.data[i] = stored

\* A non-empty float32 curve was padded with the fill 0.1, none of its
\* samples, and holds the float32 nearest to 0.1, 13421773 / 2^27, at its
\* end.
C5_WitnessPad ==
    /\ call.fn = "right_pad_array"
    /\ call.done
    /\ call.array.dtype = "float32"
    /\ Len(call.array.data) >= 1
    /\ Len(call.array.data) + 2 <= call.max_num_points
    /\ call.pad_value = FDiv(53, R(1), R(10))
    /\ call.ret.data[call.max_num_points] # call.pad_value
    /\ call.ret.data[call.max_num_points]
          = FDiv(53, R(13421773), R(134217728))

\* C6 as stated: the flow curve is as long as the volume curve,
\* flow[0] = 0, for every i >= 1 flow[i] = (volume[i] - volume[i-1]) /
\* time_scale, and volume[i] = trimmed_series[i] * volume_scale, the right
\* sides evaluated in float64 as Python evaluates them.
C6_Derivative ==
    (call.fn = "derive_base_curves" /\ call.done /\ call.ret.ok)
        => LET row == call.ret.val[1]
               vs == call.volume_scale
               ts == call.time_scale
           IN  /\ Len(row.volume) = Len(call.series)
               /\ Len(row.flow) = Len(row.volume)
               /\ row.flow[1] = R(0)
               /\ \A i \in DOMAIN call.series :
                     row.volume[i] = F64(XMul(R(call.series[i]), vs))
               /\ \A i \in 2 .. Len(row.flow) :
                     row.flow[i]
                        = FDiv(53, F64(XSub(row.volume[i], row.volume[i - 1])),
                               ts)

\* C6 amended: the flow curve is as long as the volume curve, flow[0] = 0,
\* volume[i] is trimmed_series[i] * volume_scale rounded to float32, and for
\* every i >= 1 flow[i] is the float32 quotient of the float32 difference
\* volume[i] - volume[i-1] by time_scale rounded to float32.
C6_DerivativeFloat32 ==
    (call.fn = "derive_base_curves" /\ call.done /\ call.ret.ok)
        => LET row == call.ret.val[1]
               vs == call.volume_scale
               ts == call.time_scale
           IN  /\ Len(row.volume) = Len(call.series)
               /\ Len(row.flow) = Len(row.volume)
               /\ row.flow[1] = R(0)
               /\ \A i \in DOMAIN call.series :
                     row.volume[i] = F32(F64(XMul(R(call.series[i]), vs)))
               /\ \A i \in 2 .. Len(row.flow) :
                     row.flow[i]
                        = FDiv(24, F32(XSub(row.volume[i], row.volume[i - 1])),
                               F32(ts))

\* Base curves were derived, with the scales of the pipeline, from a
\* trimmed series (first sample 0) that rises and then falls; a volume
\* sample differs from the float64 product it is rounded from.
C6_Witness ==
    /\ call.fn = "derive_base_curves"
    /\ call.done
    /\ call.ret.ok
    /\ call.volume_scale = VOLUME_SCALE
    /\ call.time_scale = TIME_SCALE
    /\ Len(call.series) >= 3
    /\ call.series[1] = 0
    /\ \E i \in 2 .. Len(call.series) :
          /\ RLt(R(0), call.ret.val[1].flow[i - 1])
          /\ RLt(call.ret.val[1].flow[i], R(0))
    /\ \E i \in DOMAIN call.series :
          call.ret.val[1].volume[i]
             # F64(XMul(R(call.series[i]), call.volume_scale))

\* The 0-based indices i with volume[i] >= f * volume_max, the product
\* taken exactly.
Reaching(volume, f, volume_max) ==
    {i \in 0 .. (Len(volume) - 1) :
        RGeq(volume[i + 1], XMul(f, volume_max))}

\* The 0-based indices i with volume[i] >= f * volume_max, the product
\* rounded to float32, the type of the volume curve.
ReachingFloat32(volume, f, volume_max) ==
    {i \in 0 .. (Len(volume) - 1) :
        RGeq(volume[i + 1], F32(F64(XMul(f, volume_max))))}

\* i is the smallest element of the set S of indices.
IsLeast(i, S) == i \in S /\ \A j \in S : i <= j

\* compute_fef returned a tuple whose three point values are the flow at the
\* first sample reaching 25%, 50% and 75% of volume_max, Reach telling which
\* samples reach a fraction of it.
FirstCrossings(Reach(_, _, _)) ==
    LET v == call.volume
        vm == call.volume_max
    IN  /\ IsLeast(idx_25(v, vm), Reach(v, Quarter, vm))
        /\ IsLeast(idx_50(v, vm), Reach(v, Half, vm))
        /\ IsLeast(idx_75(v, vm), Reach(v, ThreeQuarters, vm))
        /\ \E i \in Reach(v, Quarter, vm) :
              /\ IsLeast(i, Reach(v, Quarter, vm))
              /\ call.ret.val[1] = call.flow[i + 1]
        /\ \E i \in Reach(v, Half, vm) :
              /\ IsLeast(i, Reach(v, Half, vm))
              /\ call.ret.val[2] = call.flow[i + 1]
        /\ \E i \in Reach(v, ThreeQuarters, vm) :
              /\ IsLeast(i, Reach(v, ThreeQuarters, vm))
              /\ call.ret.val[3] = call.flow[i + 1]

\* C7 as stated: whenever compute_fef succeeds, each index it selects is
\* the smallest i with volume[i] >= f * volume_max, and fef25, fef50, fef75
\* are the flow values at those indices.
C7_FirstCrossingAlways ==
    (call.fn = "compute_fef" /\ call.done /\ call.ret.ok)
        => FirstCrossings(Reaching)

\* C7 amended: whenever compute_fef succeeds with volume_max >= 0, each
\* index it selects is the smallest i with volume[i] >= f * volume_max, the
\* product rounded to float32 (the earliest crossing on a plateau), and
\* fef25, fef50, fef75 are the flow values at those indices.
C7_FirstCrossing ==
    (/\ call.fn = "compute_fef"
     /\ call.done
     /\ call.ret.ok
     /\ RGeq(call.volume_max, R(0)))
        => FirstCrossings(ReachingFloat32)

\* compute_fef succeeded on a curve whose three crossings are three
\* different samples, with further samples above the 25% threshold after
\* the first one, the flow differs between the crossings, and the sample at
\* the 75% crossing reaches 0.75 * volume_max only once that product is
\* rounded to float32.
C7_Witness ==
    /\ call.fn = "compute_fef"
    /\ call.done
    /\ call.ret.ok
    /\ RGeq(call.volume_max, R(0))
    /\ idx_25(call.volume, call.volume_max) < idx_50(call.volume, call.volume_max)
    /\ idx_50(call.volume, call.volume_max) < idx_75(call.volume, call.volume_max)
    /\ Cardinality(ReachingFloat32(call.volume, Quarter, call.volume_max)) >= 2
    /\ call.ret.val[1] # call.ret.val[2]
    /\ call.ret.val[2] # call.ret.val[3]
    /\ RLt(call.volume[idx_75(call.volume, call.volume_max) + 1],
           XMul(ThreeQuarters, call.volume_max))

\* flow and volume have equal length > 1 and some sample reaches 75% of
\* volume_max.
Scorable ==
    /\ Len(call.flow) = Len(call.volume)
    /\ Len(call.flow) > 1
    /\ Reaching(call.volume, ThreeQuarters, call.volume_max) # {}

\* The indices selected are ordered, 0 <= idx_25 <= idx_50 <= idx_75 < len,
\* and compute_fef returned normally.
OrderedIndices ==
    LET v == call.volume
        vm == call.volume_max
    IN  /\ 0 <= idx_25(v, vm)
        /\ idx_25(v, vm) <= idx_50(v, vm)
        /\ idx_50(v, vm) <= idx_75(v, vm)
        /\ idx_75(v, vm) < Len(call.flow)
        /\ call.ret.ok

\* C8 as stated: for every flow/volume pair of equal length > 1 and every
\* volume_max, if a sample reaches 75% of volume_max then
\* 0 <= idx_25 <= idx_50 <= idx_75 < len(flow) and the ordering assertion
\* does not fail.
C8_OrderedAlways ==
    (call.fn = "compute_fef" /\ call.done /\ Scorable) => OrderedIndices

\* C8 amended: for every flow/volume pair of equal length > 1 and every
\* volume_max >= 0, if a sample reaches 75% of volume_max then
\* 0 <= idx_25 <= idx_50 <= idx_75 < len(flow) and the ordering assertion
\* does not fail.
C8_Ordered ==
    (/\ call.fn = "compute_fef"
     /\ call.done
     /\ Scorable
     /\ RGeq(call.volume_max, R(0)))
        => OrderedIndices

\* compute_fef was called with a positive volume_max reached at 75% by a
\* sample later than the first one reaching 25%.
C8_Witness ==
    /\ call.fn = "compute_fef"
    /\ call.done
    /\ Scorable
    /\ RLt(R(0), call.volume_max)
    /\ idx_25(call.volume, call.volume_max) < idx_75(call.volume, call.volume_max)
    /\ \E i \in DOMAIN call.volume : RLt(call.volume[i], R(0))

\* The float64 sum of flow[lo] .. flow[hi], 0-based and both ends included,
\* added up from the left.
RECURSIVE SumRange(_, _, _)
SumRange(flow, lo, hi) ==
    IF lo > hi THEN R(0)
    ELSE F64(XAdd(SumRange(flow, lo, hi - 1), flow[hi + 1]))

\* C9: fef25_75 is the arithmetic mean of the unpadded flow samples over the
\* inclusive index range [idx_25, idx_75]: their sum divided by
\* idx_75 - idx_25 + 1, and that single sample when idx_25 = idx_75.
C9_InclusiveMean ==
    (call.fn = "compute_fef" /\ call.done /\ call.ret.ok)
        => LET i25 == idx_25(call.volume, call.volume_max)
               i75 == idx_75(call.volume, call.volume_max)
           IN  /\ call.ret.val[4]
                     = FDiv(53, SumRange(call.flow, i25, i75),
                            R(i75 - i25 + 1))
               /\ i25 = i75 => call.ret.val[4] = call.flow[i25 + 1]

\* compute_fef succeeded with idx_25 two samples before idx_75 and the flow
\* at idx_75 different from the mean of the samples before it.
C9_Witness ==
    /\ call.fn = "compute_fef"
    /\ call.done
    /\ call.ret.ok
    /\ idx_75(call.volume, call.volume_max)
          = idx_25(call.volume, call.volume_max) + 2
    /\ RLt(R(0), call.volume_max)
    /\ call.flow[idx_75(call.volume, call.volume_max) + 1] # call.ret.val[4]
    /\ call.flow[idx_25(call.volume, call.volume_max) + 1] # call.ret.val[4]

\* compute_fef raises exactly when no sample reaches 75% of volume_max, and
\* a tuple it returns is computed with every threshold reached by a sample,
\* Reach telling which samples reach a fraction of volume_max.
FailsExactlyWhenUnreachable(Reach(_, _, _)) ==
    LET v == call.volume
        vm == call.volume_max
    IN  /\ ~call.ret.ok <=> Reach(v, ThreeQuarters, vm) = {}
        /\ Reach(v, ThreeQuarters, vm) = {} => call.ret.err = "ValueError"
        /\ call.ret.ok
              => /\ Reach(v, Quarter, vm) # {}
                 /\ Reach(v, Half, vm) # {}

\* C10 as stated: given flow and volume of equal length > 1, compute_fef
\* fails with an error exactly when no sample of the volume curve is
\* >= 0.75 * volume_max, and it never returns values computed from index 0
\* as a fallback for an unreachable threshold.
C10_FailsExactlyAlways ==
    (/\ call.fn = "compute_fef"
     /\ call.done
     /\ Len(call.flow) = Len(call.volume)
     /\ Len(call.flow) > 1)
        => FailsExactlyWhenUnreachable(Reaching)

\* C10 amended: given flow and volume of equal length > 1 and
\* volume_max >= 0, compute_fef fails with an error exactly when no sample
\* of the volume curve is >= 0.75 * volume_max, the product rounded to
\* float32, and it never returns values computed from index 0 as a fallback
\* for an unreachable threshold.
C10_FailsExactly ==
    (/\ call.fn = "compute_fef"
     /\ call.done
     /\ Len(call.flow) = Len(call.volume)
     /\ Len(call.flow) > 1
     /\ RGeq(call.volume_max, R(0)))
        => FailsExactlyWhenUnreachable(ReachingFloat32)

\* compute_fef raised ValueError on curves of equal length > 1 whose volume
\* reaches 25% and 50% of a positive volume_max but never 75%.
C10_Witness ==
    /\ call.fn = "compute_fef"
    /\ call.done
    /\ Len(call.flow) = Len(call.volume)
    /\ Len(call.flow) > 1
    /\ RLt(R(0), call.volume_max)
    /\ ReachingFloat32(call.volume, Half, call.volume_max) # {}
    /\ ReachingFloat32(call.volume, ThreeQuarters, call.volume_max) = {}
    /\ ~call.ret.ok
    /\ call.ret.err = "ValueError"

---------------------------------------------------------------------------
(* Claims about the later stages of the pipeline, checked under Spec.      *)

\* C11 as stated: in a run with duplicates < 1 the failure is raised before
\* processing: no record of the caller's list is ever trimmed, no base
\* curve and no fixed-length representation is ever derived, and no output
\* is written.
C11_ConfigFailureFirst ==
    duplicates < 1
        => /\ records = batch
           /\ trimmed_df = << >>
           /\ base_df = << >>
           /\ repr_df = << >>
           /\ written = << >>

---------------------------------------------------------------------------
(* Claims about the interpolator, checked under SpecCalls.                 *)

\* The running maximum of a non-empty volume curve, sample by sample.
RunningMax(volume) ==
    [i \in DOMAIN volume |-> np_max(SubSeq(volume, 1, i))]

\* v is strictly below every value, or strictly above every value, of the
\* curve m.
OutsideRange(v, m) ==
    \/ \A i \in DOMAIN m : RLt(v, m[i])
    \/ \A i \in DOMAIN m : RLt(m[i], v)

\* The k-th point of the grid of num float64 points evenly spaced over
\* [lo, hi].
GridPoint(lo, hi, num, k) == linspace(lo, hi, num)[k]

\* C12: on non-empty flow and volume curves of equal length,
\* compute_flow_volume returns exactly num_points values, and every point of
\* the evenly spaced grid over [min_volume, max_volume] that lies strictly
\* below the smallest or strictly above the largest value of the
\* running-maximum volume curve maps to the flow value 0, whatever the flow
\* samples are.
C12_InterpBoundary ==
    (/\ call.fn = "compute_flow_volume"
     /\ call.done
     /\ Len(call.flow) = Len(call.volume)
     /\ Len(call.volume) >= 1)
        => /\ call.ret.ok
           /\ Len(call.ret.val) = call.num_points
           /\ \A k \in 1 .. call.num_points :
                 OutsideRange(GridPoint(call.min_volume, call.max_volume,
                                        call.num_points, k),
                              RunningMax(call.volume))
                    => call.ret.val[k] = R(0)

\* compute_flow_volume returned a curve with a grid point below the observed
\* volumes, one above them, and one between them whose flow is not zero.
C12_Witness ==
    /\ call.fn = "compute_flow_volume"
    /\ call.done
    /\ call.ret.ok
    /\ call.num_points >= 3
    /\ Len(call.volume) >= 2
    /\ call.volume[2] # call.volume[1]
    /\ RLt(call.min_volume, call.volume[1])
    /\ RLt(np_max(call.volume), call.max_volume)
    /\ call.ret.val[1] = R(0)
    /\ call.ret.val[call.num_points] = R(0)
    /\ \E k \in 2 .. (call.num_points - 1) : call.ret.val[k] # R(0)

---------------------------------------------------------------------------
(* Claims about the exported arrays, checked under Spec.                   *)

\* build_npy_files has returned its mapping in the current run.
Built == files # << >>

\* Every row of the array a holds MAX_NUM_POINTS samples of c channels.
CurveShape(a, c) ==
    \A k \in DOMAIN a :
        /\ Len(a[k]) = MAX_NUM_POINTS
        /\ \A i \in DOMAIN a[k] : Len(a[k][i]) = c

\* C13: for a batch of M records and duplicates D >= 1, every array of the
\* mapping build_npy_files returns has exactly M*D rows; the curve arrays
\* hold MAX_NUM_POINTS samples per row in 2, 1, 1 and 3 channels; the
\* derived-features block holds 5 zeros per row; and rows D*r .. D*r + D - 1
\* of each curve array are the curves derived from record r.
C13_Shapes ==
    Built
        => LET m == files[1]
               M == Len(batch)
               D == duplicates
           IN  /\ D >= 1
               /\ Len(repr_df) = M
               /\ Len(m.flow_volume_in_channels) = M * D
               /\ Len(m.flow_by_volume_one_channel) = M * D
               /\ Len(m.volume_by_time_one_channel) = M * D
               /\ Len(m.three_curves_in_channels) = M * D
               /\ Len(m.derived_features) = M * D
               /\ CurveShape(m.flow_volume_in_channels, 2)
               /\ CurveShape(m.flow_by_volume_one_channel, 1)
               /\ CurveShape(m.volume_by_time_one_channel, 1)
               /\ CurveShape(m.three_curves_in_channels, 3)
               /\ \A k \in 1 .. (M * D) :
                     m.derived_features[k] = <<R(0), R(0), R(0), R(0), R(0)>>
               /\ \A r \in 0 .. (M - 1) : \A k \in (D * r) .. (D * r + D - 1) :
                     \A i \in 1 .. MAX_NUM_POINTS :
                        LET row == repr_df[r + 1]
                            f == row.flow_pad_zero[i]
                            v == row.volume_pad_last[i]
                            fv == row.flow_volume_pad_zero[i]
                        IN  /\ m.flow_volume_in_channels[k + 1][i] = <<f, v>>
                            /\ m.flow_by_volume_one_channel[k + 1][i] = <<fv>>
                            /\ m.volume_by_time_one_channel[k + 1][i] = <<v>>
                            /\ m.three_curves_in_channels[k + 1][i]
                                  = <<f, v, fv>>

\* The arrays were built, with two duplicates, of two records whose curves
\* differ.
C13_Witness ==
    /\ Built
    /\ duplicates = 2
    /\ Len(batch) = 2
    /\ repr_df[1].volume_pad_last # repr_df[2].volume_pad_last
    /\ Len(files[1].three_curves_in_channels) = 4

\* The fixed-length representations have been derived in the current run.
Derived == repr_df # << >>

\* C14: flow is derived before padding, so for every blow whose base curve
\* is shorter than the target length, every element of flow_pad_zero at an
\* index >= len(flow) is exactly 0, the one at the pad boundary index
\* len(flow) included.
C14_NoPadSpike ==
    Derived
        => \A r \in DOMAIN base_df :
              LET flow == base_df[r].flow
                  padded == repr_df[r].flow_pad_zero
              IN  /\ Len(padded) = MAX_NUM_POINTS
                  /\ \A i \in 0 .. (Len(flow) - 1) :
                        i < MAX_NUM_POINTS => padded[i + 1] = flow[i + 1]
                  /\ Len(flow) < MAX_NUM_POINTS
                        => \A i \in Len(flow) .. (MAX_NUM_POINTS - 1) :
                              padded[i + 1] = R(0)

\* The representations were derived of a blow shorter than the target
\* length whose volume ends above zero, so that differentiating the
\* zero-padded volume would give a negative flow at the pad boundary.
C14_Witness ==
    /\ Derived
    /\ \E r \in DOMAIN base_df :
          /\ Len(base_df[r].flow) < MAX_NUM_POINTS
          /\ RLt(R(0), base_df[r].volume_last)
          /\ RLt(FDiv(24, F32(XSub(R(0), base_df[r].volume_last)),
                      F32(TIME_SCALE)), R(0))
          /\ repr_df[r].flow_pad_zero[Len(base_df[r].flow) + 1] = R(0)

\* Sample i (0-based) of the last-value-padded volume curve: the sample of
\* the unpadded curve, or its last sample from index len(volume) on.
LastValuePadded(volume, i) ==
    IF i < Len(volume) THEN volume[i + 1] ELSE volume[Len(volume)]

\* C15: the volume channel of the exported arrays (channel 1 of flow+volume
\* and of three-curves, the single channel of volume-by-time) is the
\* last-value-padded curve: for a blow shorter than the target length every
\* sample at an index >= len(volume) equals volume[-1], for a longer blow
\* the channel is the first samples of the curve; the zero-padded volume is
\* not exported.
C15_VolumeChannel ==
    Built
        => \A k \in DOMAIN files[1].volume_by_time_one_channel :
              LET r == ((k - 1) \div duplicates) + 1
                  volume == base_df[r].volume
              IN  \A i \in 0 .. (MAX_NUM_POINTS - 1) :
                     LET v == LastValuePadded(volume, i)
                     IN  /\ files[1].flow_volume_in_channels[k][i + 1][2] = v
                         /\ files[1].three_curves_in_channels[k][i + 1][2] = v
                         /\ files[1].volume_by_time_one_channel[k][i + 1][1] = v

\* The arrays were built of a blow longer than the target length, and of a
\* blow shorter than the target length whose volume ends above zero.
C15_Witness ==
    /\ Built
    /\ Len(base_df) = 2
    /\ Len(base_df[1].volume) > MAX_NUM_POINTS
    /\ Len(base_df[2].volume) < MAX_NUM_POINTS
    /\ RLt(R(0), base_df[2].volume_last)
    /\ repr_df[2].volume_pad_zero # repr_df[2].volume_pad_last
    /\ files[1].volume_by_time_one_channel[duplicates + 1][MAX_NUM_POINTS][1]
          = base_df[2].volume_last

---------------------------------------------------------------------------
(* Claims about the metric extractor inside the pipeline, under Spec.      *)

\* The base curves have been derived in the current run.
BaseDerived == base_df # << >>

\* v is the maximum of the non-empty curve a.
IsMaximum(v, a) ==
    /\ \E i \in DOMAIN a : a[i] = v
    /\ \A i \in DOMAIN a : RLeq(a[i], v)

\* compute_fef gets, for the row, flow and volume of equal length > 1 and
\* the maximum of that volume curve, a sample reaches 75% of it, and
\* compute_fef returns normally.
FefCannotFail(row) ==
    /\ Len(row.flow) = Len(row.volume)
    /\ Len(row.flow) > 1
    /\ IsMaximum(row.volume_max, row.volume)
    /\ Reaching(row.volume, ThreeQuarters, row.volume_max) # {}
    /\ compute_fef(row.flow, row.volume, row.volume_max).ok

\* C16 as stated: for every record that passes trimming with
\* num_points >= 1 and non-negative raw samples, compute_fef is called with
\* flow and volume of equal length num_points + 1 > 1 and with volume_max
\* the maximum of that volume curve, some sample reaches 75% of volume_max,
\* and neither the length assertions nor the insufficient-data error fires.
C16_FefUnreachable ==
    /\ BaseDerived
          => \A r \in DOMAIN base_df :
                /\ FefCannotFail(base_df[r])
                /\ Len(base_df[r].flow) = base_df[r].num_points + 1
    /\ pc = "failed" => stage # "derive_input_representations"

\* C16 amended: for every record that passes trimming with num_points >= 1
\* and non-negative raw samples, compute_fef is called with flow and volume
\* of equal length > 1 (num_points + 1 when the raw series is longer than
\* num_points, the length of the raw series when it is shorter) and with
\* volume_max the maximum of that volume curve, some sample reaches 75% of
\* volume_max, and neither the length assertions nor the insufficient-data
\* error fires.
C16_FefUnreachableInPipeline ==
    /\ BaseDerived
          => \A r \in DOMAIN base_df :
                /\ FefCannotFail(base_df[r])
                /\ Len(base_df[r].flow)
                      = IF Len(batch[r].series) > batch[r].num_points
                        THEN batch[r].num_points + 1
                        ELSE Len(batch[r].series)
    /\ pc = "failed" => stage # "derive_input_representations"

\* The representations were derived, compute_fef having returned, of a
\* record with num_points real samples rising above zero and of a record
\* whose raw series is shorter than its num_points.
C16_Witness ==
    /\ pc = "repr"
    /\ run = 1
    /\ Len(batch) = 2
    /\ Len(batch[1].series) > batch[1].num_points + 1
    /\ RLt(R(0), base_df[1].volume_max)
    /\ base_df[1].volume_last # base_df[1].volume_max
    /\ repr_df[1].blow_fef75 # R(0)
    /\ Len(batch[2].series) < batch[2].num_points

===========================================================================
